---- MODULE Spec2Model ----
(***************************************************************************)
(* Model of backend/main.py of equalcare: the upload handler that turns a  *)
(* CSV dataset into a gender-bias report with an optional age analysis.    *)
(*                                                                         *)
(* Representation.                                                         *)
(*   - A text (column name, cell) is a sequence of one-character strings,  *)
(*     so that lower-casing and stripping are computed, not assumed.       *)
(*   - A float64 is a record [e, m]: m is the 53-bit mantissa, most        *)
(*     significant bit first and equal to 1, and the value is              *)
(*     1.m[2]m[3]...m[53] * 2^e.  Zero is FZero.  Division, multiplication *)
(*     and rint round to nearest, ties to even, as IEEE-754 does.          *)
(*   - A value rounded to n decimals is reported as the integer number of  *)
(*     10^-n units (57.14 is 5714 hundredths).                             *)
(***************************************************************************)
EXTENDS Integers, Sequences, FiniteSets, TLC

VARIABLES df, result, pc

vars == <<df, result, pc>>

(***************************************************************************)
(* Bounds of the explored inputs.                                          *)
(***************************************************************************)
MaxRows == 2
MaxMale == 23
MaxFemale == 137
MaxAgeRows == 3
MaxCols == 3

(***************************************************************************)
(* Texts.                                                                  *)
(***************************************************************************)
UpperLetters == <<"A","B","C","D","E","F","G","H","I","J","K","L","M",
                  "N","O","P","Q","R","S","T","U","V","W","X","Y","Z">>

LowerLetters == <<"a","b","c","d","e","f","g","h","i","j","k","l","m",
                  "n","o","p","q","r","s","t","u","v","w","x","y","z">>

Whitespace == {" ", "\t"}

Digits == <<"0","1","2","3","4","5","6","7","8","9">>

None == <<>>

\* str.lower on one character
LowerChar(c) ==
  IF \E i \in 1..26 : UpperLetters[i] = c
  THEN LowerLetters[CHOOSE i \in 1..26 : UpperLetters[i] = c]
  ELSE c

\* str.lower
Lower(t) == [i \in 1..Len(t) |-> LowerChar(t[i])]

RECURSIVE LStrip(_)
LStrip(t) ==
  IF t # <<>> /\ Head(t) \in Whitespace THEN LStrip(Tail(t)) ELSE t

RECURSIVE RStrip(_)
RStrip(t) ==
  IF t # <<>> /\ t[Len(t)] \in Whitespace
  THEN RStrip(SubSeq(t, 1, Len(t) - 1))
  ELSE t

\* str.strip
Strip(t) == RStrip(LStrip(t))

\* Series.unique: the distinct values in order of first appearance
Unique(s) ==
  LET first == {i \in 1..Len(s) : \A j \in 1..(i - 1) : s[j] # s[i]}
  IN [k \in 1..Cardinality(first) |->
        s[CHOOSE i \in first : Cardinality({j \in first : j <= i}) = k]]

\* number of elements of s equal to v
CountEq(s, v) == Cardinality({i \in 1..Len(s) : s[i] = v})

(***************************************************************************)
(* float64 arithmetic.                                                     *)
(***************************************************************************)
MantBits == 53

\* bit strings are cut into chunks of ChunkBits bits to do arithmetic on them
ChunkBits == MantBits \div 4

FZero == [e |-> 0, m |-> <<>>]

Zeros(n) == [i \in 1..n |-> 0]

AnyOne(b) == \E i \in 1..Len(b) : b[i] = 1

AllOnes(b) == \A i \in 1..Len(b) : b[i] = 1

\* b + 1 on a bit string that is not all ones
IncBits(b) ==
  LET p == CHOOSE i \in 1..Len(b) :
             b[i] = 0 /\ \A j \in (i + 1)..Len(b) : b[j] = 1
  IN [i \in 1..Len(b) |-> IF i < p THEN b[i] ELSE IF i = p THEN 1 ELSE 0]

\* the w low binary digits of n, most significant first
FixedBits(n, w) == [i \in 1..w |-> (n \div 2^(w - i)) % 2]

\* binary digits of n without leading zeros, most significant first
RECURSIVE ToBits(_)
ToBits(n) == IF n = 0 THEN <<>> ELSE ToBits(n \div 2) \o <<n % 2>>

\* the integer whose binary digits are the first k bits of b
RECURSIVE BitsValue(_, _)
BitsValue(b, k) == IF k = 0 THEN 0 ELSE 2 * BitsValue(b, k - 1) + b[k]

BitsToInt(b) == BitsValue(b, Len(b))

\* The float nearest to (B as an integer) * 2^q, plus a positive excess
\* below one unit of B's last bit when sticky; B starts with a 1.
RoundBits(B, q, sticky) ==
  LET L == Len(B) IN
  IF L <= MantBits
  THEN [e |-> q + L - 1, m |-> B \o Zeros(MantBits - L)]
  ELSE LET head == SubSeq(B, 1, MantBits)
           r == B[MantBits + 1]
           st == sticky \/ AnyOne(SubSeq(B, MantBits + 2, L))
           up == r = 1 /\ (st \/ head[MantBits] = 1)
       IN IF ~up THEN [e |-> q + L - 1, m |-> head]
          ELSE IF AllOnes(head)
               THEN [e |-> q + L, m |-> <<1>> \o Zeros(MantBits - 1)]
               ELSE [e |-> q + L - 1, m |-> IncBits(head)]

\* scale n/d into [1, 2): <<n', d', e>> with n/d = n'/d' * 2^e
RECURSIVE Norm(_, _, _)
Norm(n, d, e) ==
  IF n >= 2 * d THEN Norm(n, 2 * d, e + 1)
  ELSE IF n < d THEN Norm(2 * n, d, e - 1)
  ELSE <<n, d, e>>

Min(a, b) == IF a <= b THEN a ELSE b

\* the next k quotient bits of rem/d, rem < d, a chunk at a time
RECURSIVE DivBits(_, _, _)
DivBits(rem, d, k) ==
  IF k = 0 THEN <<>>
  ELSE LET w == Min(k, ChunkBits)
           t == rem * 2^w
       IN FixedBits(t \div d, w) \o DivBits(t % d, d, k - w)

\* the remainder left after those k bits
RECURSIVE DivRem(_, _, _)
DivRem(rem, d, k) ==
  IF k = 0 THEN rem
  ELSE DivRem((rem * 2^Min(k, ChunkBits)) % d, d, k - Min(k, ChunkBits))

\* a / b in float64 for integers a >= 0, b > 0
fdiv(a, b) ==
  IF a = 0 THEN FZero
  ELSE LET nde == Norm(a, b, 0)
           n == nde[1]
           d == nde[2]
       IN RoundBits(<<1>> \o DivBits(n - d, d, MantBits),
                    nde[3] - MantBits,
                    DivRem(n - d, d, MantBits) # 0)

\* bits * c + carry as a bit string, a chunk at a time from the low end
RECURSIVE MulAcc(_, _, _)
MulAcc(bits, c, carry) ==
  IF Len(bits) <= ChunkBits THEN ToBits(BitsToInt(bits) * c + carry)
  ELSE LET cut_at == Len(bits) - ChunkBits
           v == BitsToInt(SubSeq(bits, cut_at + 1, Len(bits))) * c + carry
       IN MulAcc(SubSeq(bits, 1, cut_at), c, v \div 2^ChunkBits)
            \o FixedBits(v % 2^ChunkBits, ChunkBits)

\* x * c in float64 for a float x >= 0 and an integer c >= 1
fmul(x, c) ==
  IF x = FZero THEN FZero
  ELSE RoundBits(MulAcc(x.m, c, 0), x.e - (MantBits - 1), FALSE)

\* rint(x): the nearest integer, ties to even, for 0 <= x < 2^31
frint(x) ==
  IF x = FZero \/ x.e < -1 THEN 0
  ELSE IF x.e = -1 THEN (IF AnyOne(Tail(x.m)) THEN 1 ELSE 0)
  ELSE LET I == BitsToInt(SubSeq(x.m, 1, x.e + 1))
           r == x.m[x.e + 2]
           st == AnyOne(SubSeq(x.m, x.e + 3, MantBits))
       IN IF r = 1 /\ (st \/ I % 2 = 1) THEN I + 1 ELSE I

\* lexicographic order of two bit strings of the same length
BitsLess(a, b) ==
  \E i \in 1..Len(a) : a[i] < b[i] /\ \A j \in 1..(i - 1) : a[j] = b[j]

\* x < y on floats >= 0
flt(x, y) ==
  IF y = FZero THEN FALSE
  ELSE IF x = FZero THEN TRUE
  ELSE IF x.e # y.e THEN x.e < y.e
  ELSE BitsLess(x.m, y.m)

\* round(x, ndigits) of a numpy float64: rint(x * 10^ndigits) / 10^ndigits,
\* given as the integer rint(x * 10^ndigits)
fround(x, ndigits) == frint(fmul(x, 10^ndigits))

(***************************************************************************)
(* Column resolution.                                                      *)
(***************************************************************************)
possible_gender_columns ==
  << <<"g","e","n","d","e","r">>,
     <<"s","e","x">>,
     <<"g","n","d","r">>,
     <<"g">>,
     <<"s">> >>

possible_age_columns ==
  << <<"a","g","e">>,
     <<"y","e","a","r","s">>,
     <<"p","a","t","i","e","n","t","_","a","g","e">>,
     <<"s","u","b","j","e","c","t","_","a","g","e">>,
     <<"p","a","t","_","a","g","e">> >>

\* {col.lower(): col for col in df.columns}: a later column overwrites an
\* earlier one that has the same lower-cased name
normalized_columns(columns) ==
  [k \in {Lower(columns[i]) : i \in 1..Len(columns)} |->
     columns[CHOOSE i \in 1..Len(columns) :
               /\ Lower(columns[i]) = k
               /\ \A j \in (i + 1)..Len(columns) : Lower(columns[j]) # k]]

\* for col in possible: if col in normalized_columns: take it and break
RECURSIVE match_column(_, _)
match_column(possible, nc) ==
  IF possible = <<>> THEN None
  ELSE IF Head(possible) \in DOMAIN nc THEN nc[Head(possible)]
  ELSE match_column(Tail(possible), nc)

\* variant: falls back to the first column when no alias matches
gender_col_fallback(columns) ==
  LET col == match_column(possible_gender_columns, normalized_columns(columns))
  IN IF col = None /\ columns # <<>> THEN columns[1] ELSE col

gender_col(columns) ==
  match_column(possible_gender_columns, normalized_columns(columns))

age_col(columns) ==
  match_column(possible_age_columns, normalized_columns(columns))

\* df[col]: the cells of the column named col, top to bottom
Column(d, col) ==
  LET j == CHOOSE j \in 1..Len(d.columns) : d.columns[j] = col
  IN [i \in 1..Len(d.rows) |-> d.rows[i][j]]

(***************************************************************************)
(* Gender analysis.  A cell is given by the text astype(str) yields.       *)
(***************************************************************************)
male == <<"m","a","l","e">>

female == <<"f","e","m","a","l","e">>

\* variant: the table without the entries for a trailing dot
replace_table_no_dots ==
  (<<"1">> :> male) @@ (<<"0">> :> female) @@
  (<<"m">> :> male) @@ (<<"f">> :> female)

\* variant: "1" and "0" are rewritten to the letter encodings
replace_table_chained ==
  (<<"1">> :> <<"m">>) @@ (<<"0">> :> <<"f">>) @@
  (<<"m">> :> male) @@ (<<"f">> :> female) @@
  (<<"m","a","l","e",".">> :> male) @@ (<<"f","e","m","a","l","e",".">> :> female) @@
  (<<"m",".">> :> male) @@ (<<"f",".">> :> female)

\* the substitution table of Series.replace
replace_table ==
  (<<"1">> :> male) @@ (<<"0">> :> female) @@
  (<<"m">> :> male) @@ (<<"f">> :> female) @@
  (<<"m","a","l","e",".">> :> male) @@ (<<"f","e","m","a","l","e",".">> :> female) @@
  (<<"m",".">> :> male) @@ (<<"f",".">> :> female)

\* Series.replace(dict): a value equal to a key becomes that key's value
replace(t) == IF t \in DOMAIN replace_table THEN replace_table[t] ELSE t

\* .str.lower().str.strip() followed by .replace({...}) on one cell
normalize(t) == replace(Strip(Lower(t)))

normalized_gender(cells) == [i \in 1..Len(cells) |-> normalize(cells[i])]

\* the float literals 0.05, 0.2 and 0.4
Lit005 == fdiv(5, 100)

Lit02 == fdiv(2, 10)

Lit04 == fdiv(4, 10)

Abs(x) == IF x < 0 THEN -x ELSE x

\* bias_score before rounding: abs(num_male - num_female) / total, or 0
bias_score(num_male, num_female) ==
  IF num_male + num_female > 0
  THEN fdiv(Abs(num_male - num_female), num_male + num_female)
  ELSE FZero

\* the if/elif chain on the unrounded bias_score
bias_label(score) ==
  IF flt(score, Lit005) THEN "Balanced"
  ELSE IF flt(score, Lit02) THEN "Mildly Imbalanced"
  ELSE IF flt(score, Lit04) THEN "Significantly Imbalanced"
  ELSE "Highly Imbalanced"

\* round(count / total * 100, 2) in hundredths of a percent, or 0
percent(count, total) ==
  IF total > 0 THEN fround(fmul(fdiv(count, total), 100), 2) ELSE 0

\* the result dictionary built from the gender column
gender_result(d, col) ==
  LET cells == Column(d, col)
      norm == normalized_gender(cells)
      num_male == CountEq(norm, male)
      num_female == CountEq(norm, female)
      total == num_male + num_female
      score == bias_score(num_male, num_female)
  IN [used_column |-> col,
      male |-> num_male,
      female |-> num_female,
      total |-> total,
      male_percent |-> percent(num_male, total),
      female_percent |-> percent(num_female, total),
      bias_score |-> fround(score, 2),
      bias_label |-> bias_label(score),
      raw_values |-> Unique(cells),
      normalized_values |-> Unique(norm)]

(***************************************************************************)
(* Age analysis.                                                           *)
(***************************************************************************)
IsDigits(t) ==
  t # <<>> /\ \A i \in 1..Len(t) : \E k \in 1..10 : Digits[k] = t[i]

DigitVal(c) == (CHOOSE k \in 1..10 : Digits[k] = c) - 1

RECURSIVE ParseNat(_)
ParseNat(t) ==
  IF t = <<>> THEN 0
  ELSE 10 * ParseNat(SubSeq(t, 1, Len(t) - 1)) + DigitVal(t[Len(t)])

\* pd.to_numeric(errors='coerce') on one cell: an integer, an infinity, or
\* NaN for a text that is no number
to_numeric(t) ==
  IF IsDigits(t) THEN [k |-> "num", v |-> ParseNat(t)]
  ELSE IF t # <<>> /\ Head(t) = "-" /\ IsDigits(Tail(t))
       THEN [k |-> "num", v |-> -ParseNat(Tail(t))]
  ELSE IF Lower(t) = <<"i","n","f">> THEN [k |-> "inf", v |-> 0]
  ELSE [k |-> "nan", v |-> 0]

NotNaN(x) == x.k # "nan"

\* df.dropna(subset=['age_clean']) of the coerced column
dropna(age_clean) == SelectSeq(age_clean, NotNaN)

RECURSIVE Sum(_)
Sum(s) == IF s = <<>> THEN 0 ELSE Head(s) + Sum(Tail(s))

RECURSIVE SumSq(_)
SumSq(s) == IF s = <<>> THEN 0 ELSE Head(s) * Head(s) + SumSq(Tail(s))

SeqMin(s) == CHOOSE x \in {s[i] : i \in 1..Len(s)} :
               \A i \in 1..Len(s) : x <= s[i]

SeqMax(s) == CHOOSE x \in {s[i] : i \in 1..Len(s)} :
               \A i \in 1..Len(s) : x >= s[i]

\* the k-th smallest element of s
Kth(s, k) ==
  CHOOSE x \in {s[i] : i \in 1..Len(s)} :
    /\ Cardinality({i \in 1..Len(s) : s[i] < x}) < k
    /\ Cardinality({i \in 1..Len(s) : s[i] <= x}) >= k

\* round(mean, 1) in tenths
mean_age(vals) ==
  LET total == Sum(vals)
  IN IF total >= 0 THEN fround(fdiv(total, Len(vals)), 1)
     ELSE -fround(fdiv(-total, Len(vals)), 1)

\* round(median, 1) in tenths: the middle value, or the mean of the two
\* middle values
median_age(vals) ==
  LET n == Len(vals)
  IN IF n % 2 = 1 THEN 10 * Kth(vals, (n + 1) \div 2)
     ELSE 5 * (Kth(vals, n \div 2) + Kth(vals, n \div 2 + 1))

\* the largest r in lo..hi-1 with (2r - 1)^2 * D <= 400 * N
RECURSIVE StdSearch(_, _, _, _)
StdSearch(lo, hi, N, D) ==
  IF hi - lo <= 1 THEN lo
  ELSE LET mid == (lo + hi) \div 2
       IN IF (2 * mid - 1) * (2 * mid - 1) * D <= 400 * N
          THEN StdSearch(mid, hi, N, D)
          ELSE StdSearch(lo, mid, N, D)

\* round(Series.std(), 1): the sample standard deviation (ddof = 1) in
\* tenths, NaN for fewer than two values.  The square root is taken of the
\* exact variance.
std_dev(vals) ==
  LET n == Len(vals)
      N == n * SumSq(vals) - Sum(vals) * Sum(vals)
      D == n * (n - 1)
      r == StdSearch(0, 10 * (SeqMax(vals) - SeqMin(vals)) + 1, N, D)
  IN IF n < 2 THEN [nan |-> TRUE, tenths |-> 0]
     ELSE IF (2 * r - 1) * (2 * r - 1) * D = 400 * N /\ r % 2 = 1
          THEN [nan |-> FALSE, tenths |-> r - 1]
          ELSE [nan |-> FALSE, tenths |-> r]

bins == <<0, 18, 35, 50, 65, 120>>

labels == <<"Under 18", "18-34", "35-49", "50-64", "65+">>

\* variant: right=True, the intervals (bins[i], bins[i+1]]
cut_right_closed(x) ==
  IF \E i \in 1..Len(labels) : bins[i] < x /\ x <= bins[i + 1]
  THEN labels[CHOOSE i \in 1..Len(labels) : bins[i] < x /\ x <= bins[i + 1]]
  ELSE "NaN"

\* pd.cut(bins, labels, right=False) of one value: the label of the interval
\* [bins[i], bins[i+1]) holding x, or NaN
cut(x) ==
  IF \E i \in 1..Len(labels) : bins[i] <= x /\ x < bins[i + 1]
  THEN labels[CHOOSE i \in 1..Len(labels) : bins[i] <= x /\ x < bins[i + 1]]
  ELSE "NaN"

\* value_counts() of the age_group column, read with .get(label, 0)
value_counts(vals, label) ==
  Cardinality({i \in 1..Len(vals) : cut(vals[i]) = label})

\* round(count / len(df_age) * 100, 1) in tenths of a percent
group_percent(count, n) == fround(fmul(fdiv(count, n), 100), 1)

age_groups(vals) ==
  [label \in {labels[i] : i \in 1..Len(labels)} |->
     [count |-> value_counts(vals, label),
      percent |-> group_percent(value_counts(vals, label), Len(vals))]]

\* the outcome of analyze_age_distribution: None, the stats dictionary, or
\* the exception of int() on an infinite minimum or maximum
analyze_age_distribution(d) ==
  LET col == age_col(d.columns)
      cells == Column(d, col)
      age_clean == [i \in 1..Len(cells) |-> to_numeric(cells[i])]
      df_age == dropna(age_clean)
      vals == [i \in 1..Len(df_age) |-> df_age[i].v]
  IN IF col = None THEN [kind |-> "none"]
     ELSE IF Len(df_age) = 0 THEN [kind |-> "none"]
     ELSE IF \E i \in 1..Len(df_age) : df_age[i].k = "inf"
          THEN [kind |-> "raise",
                value |-> "cannot convert float infinity to integer"]
     ELSE [kind |-> "stats",
           value |-> [used_column |-> col,
                      mean_age |-> mean_age(vals),
                      median_age |-> median_age(vals),
                      min_age |-> SeqMin(vals),
                      max_age |-> SeqMax(vals),
                      std_dev |-> std_dev(vals),
                      total_valid |-> Len(df_age),
                      age_groups |-> age_groups(vals)]]

(***************************************************************************)
(* The handlers.                                                           *)
(***************************************************************************)
\* the dictionary upload_file returns for the uploaded dataset d
upload_file(d) ==
  IF ~d.ok THEN [error |-> "No columns to parse from file"]
  ELSE LET col == gender_col(d.columns)
           age_analysis == analyze_age_distribution(d)
       IN IF col = None
          THEN [error |-> "Missing a recognized gender column. Expected one of: gender, sex, gndr, g, s"]
          ELSE IF age_analysis.kind = "raise"
               THEN [error |-> age_analysis.value]
          ELSE IF age_analysis.kind = "stats"
               THEN gender_result(d, col)
                      @@ ("age_analysis" :> age_analysis.value)
          ELSE gender_result(d, col)

\* the dictionary ping returns
ping == [message |-> "pong"]

(***************************************************************************)
(* The datasets explored.  A dataset is the DataFrame read_csv returns:    *)
(* its column names, which are distinct, and its rows of cells; ok is      *)
(* FALSE for a file read_csv rejects.                                      *)
(***************************************************************************)
DF(columns, rows) == [ok |-> TRUE, columns |-> columns, rows |-> rows]

Malformed == [ok |-> FALSE, columns |-> <<>>, rows |-> <<>>]

GenderTexts ==
  { <<"M","a","l","e">>, <<" ","F"," ">>, <<"m",".">>, <<"u","n","k","n","o","w","n">>, <<"F","E","M","A","L","E",".">> }

AgeTexts == { <<"3","0">>, <<"-","1">>, <<"i","n","f">>, <<"a","b","c">> }

BandTexts ==
  { <<"-","1">>, <<"0">>, <<"1","0">>, <<"1","7">>,
    <<"1","8">>, <<"3","4">>, <<"3","5">>, <<"4","9">>,
    <<"5","0">>, <<"6","4">>, <<"6","5">>, <<"9","0">>,
    <<"1","1","9">>, <<"1","2","0">> }

ColumnNames ==
  { <<"G","e","n","d","e","r">>, <<"g","e","n","d","e","r">>, <<"S","e","x">>, <<"S">>, <<"A","g","e">>, <<"A","G","E">>, <<"Y","e","a","r","s">>, <<"n","a","m","e">> }

SmallColumnLists ==
  { << <<"G","e","n","d","e","r">>, <<"A","g","e">> >>, << <<"n","a","m","e">>, <<"A","g","e">> >>, << <<"S","E","X">> >> }

IsAgeName(c) ==
  \E i \in 1..Len(possible_age_columns) : possible_age_columns[i] = Lower(c)

IsGenderName(c) ==
  \E i \in 1..Len(possible_gender_columns) :
    possible_gender_columns[i] = Lower(c)

\* the rows over the given columns: numeric-looking texts under an age
\* column name, gender-looking texts elsewhere
RowSet(columns) ==
  {r \in [1..Len(columns) -> GenderTexts \cup AgeTexts] :
     \A j \in 1..Len(columns) :
       r[j] \in (IF IsAgeName(columns[j]) THEN AgeTexts ELSE GenderTexts)}

SeqsUpTo(S, n) == UNION {[1..k -> S] : k \in 0..n}

\* few rows, varied cells
SmallDatasets ==
  UNION {{DF(c, rows) : rows \in SeqsUpTo(RowSet(c), MaxRows)} :
           c \in SmallColumnLists}

\* one row of "1" cells under every list of distinct column names
ColumnDatasets ==
  {DF(c, << [j \in 1..Len(c) |-> <<"1">>] >>) :
     c \in {c \in SeqsUpTo(ColumnNames, MaxCols) :
              \A i, j \in 1..Len(c) : i # j => c[i] # c[j]}}

\* Example 1 of the specification
Example1 ==
  DF(<< <<"G","e","n","d","e","r">> >>,
     << <<<<"M","a","l","e">>>>, <<<<"f","e","m","a","l","e">>>>, <<<<"M">>>>, <<<<"F">>>>,
        <<<<"1">>>>, <<<<"0">>>>, <<<<"m","a","l","e",".">>>>, <<<<"u","n","k","n","o","w","n">>>> >>)

\* the rows of Example 3 of the specification
Example3Rows ==
  << <<<<"f">>, <<"1","0">>>>, <<<<"f">>, <<"1","8">>>>, <<<<"f">>, <<"3","4">>>>, <<<<"f">>, <<"6","5">>>>,
     <<<<"f">>, <<"9","0">>>> >>

\* a gender column of n_m "M" cells followed by n_f "f" cells
CountDatasets ==
  {DF(<< <<"g","e","n","d","e","r">> >>,
      [i \in 1..(n_m + n_f) |-> IF i <= n_m THEN <<<<"M">>>> ELSE <<<<"f">>>>]) :
     n_m \in 0..MaxMale, n_f \in 0..MaxFemale}

\* an age column of up to MaxAgeRows ages around the band boundaries, and
\* Example 3 of the specification
AgeDatasets ==
  {DF(<< <<"s","e","x">>, <<"a","g","e">> >>, rows) :
     rows \in SeqsUpTo({<< <<"f">>, a >> : a \in BandTexts}, MaxAgeRows)
               \cup {Example3Rows}}

(***************************************************************************)
(* The state machine: one request is received and answered.                *)
(***************************************************************************)
NoResult == [none |-> TRUE]

Init ==
  /\ df \in SmallDatasets \cup ColumnDatasets \cup {Example1, Malformed}
  /\ result = NoResult
  /\ pc = "idle"

InitCounts ==
  /\ df \in CountDatasets
  /\ result = NoResult
  /\ pc = "idle"

InitAges ==
  /\ df \in AgeDatasets
  /\ result = NoResult
  /\ pc = "idle"

\* POST /api/upload
UploadFile ==
  /\ pc = "idle"
  /\ result' = upload_file(df)
  /\ pc' = "uploaded"
  /\ UNCHANGED df

\* GET /api/ping
Ping ==
  /\ pc = "idle"
  /\ result' = ping
  /\ pc' = "pinged"
  /\ UNCHANGED df

Next == UploadFile \/ Ping

Spec == Init /\ [][Next]_vars

SpecCounts == InitCounts /\ [][Next]_vars

SpecAges == InitAges /\ [][Next]_vars

(***************************************************************************)
(* Properties.                                                             *)
(***************************************************************************)
Uploaded == pc = "uploaded"

HasReport == Uploaded /\ "male" \in DOMAIN result

HasAge == Uploaded /\ "age_analysis" \in DOMAIN result

GenderKeys ==
  {"used_column", "male", "female", "total", "male_percent",
   "female_percent", "bias_score", "bias_label", "raw_values",
   "normalized_values"}

Range(f) == {f[i] : i \in DOMAIN f}

\* the label the documented thresholds give a score in hundredths
DocumentedLabel(score) ==
  IF score < 5 THEN "Balanced"
  ELSE IF score < 20 THEN "Mildly Imbalanced"
  ELSE IF score < 40 THEN "Significantly Imbalanced"
  ELSE "Highly Imbalanced"

C2_BandCountsSumToTotalValid ==
  HasAge =>
    LET groups == result.age_analysis.age_groups
    IN groups["Under 18"].count + groups["18-34"].count
         + groups["35-49"].count + groups["50-64"].count
         + groups["65+"].count
       = result.age_analysis.total_valid

\* C3: male_percent + female_percent is exactly 100 when total > 0, and both
\* are 0 when total = 0.
C3_PercentagesSumTo100 ==
  HasReport =>
    IF result.total > 0
    THEN result.male_percent + result.female_percent = 10000
    ELSE result.male_percent = 0 /\ result.female_percent = 0

\* some cell of the column matching an age alias is a number
AgeUsable(d) ==
  \E j \in 1..Len(d.columns) :
    /\ IsAgeName(d.columns[j])
    /\ \E i \in 1..Len(d.rows) : to_numeric(d.rows[i][j]).k # "nan"

\* C4: when the gender column resolves, the complete gender report is
\* returned and never an error, whatever the age column holds; age_analysis
\* is absent exactly when no age column exists or no age cell is a number.
C4_GenderReportSurvivesAgeStage ==
  (Uploaded /\ df.ok /\ \E j \in 1..Len(df.columns) : IsGenderName(df.columns[j]))
    => /\ "error" \notin DOMAIN result
       /\ GenderKeys \subseteq DOMAIN result
       /\ (("age_analysis" \in DOMAIN result) <=> AgeUsable(df))

\* C5: when no column matches a gender alias, the result is an error only:
\* no gender statistic and no age_analysis.
C5_NoGenderColumnOnlyError ==
  (Uploaded /\ \A j \in 1..Len(df.columns) : ~IsGenderName(df.columns[j]))
    => DOMAIN result = {"error"}

C5_Witness ==
  /\ Uploaded
  /\ df.ok
  /\ \A j \in 1..Len(df.columns) : ~IsGenderName(df.columns[j])
  /\ \E j \in 1..Len(df.columns) :
       /\ IsAgeName(df.columns[j])
       /\ \E i \in 1..Len(df.rows) : to_numeric(df.rows[i][j]).k = "num"
  /\ DOMAIN result = {"error"}

\* the dataset d with its columns reordered by the permutation p
PermuteColumns(d, p) ==
  DF([j \in 1..Len(d.columns) |-> d.columns[p[j]]],
     [i \in 1..Len(d.rows) |->
        [j \in 1..Len(d.columns) |-> d.rows[i][p[j]]]])

\* the column the upload reports for the gender and for the age field
UsedColumns(r) ==
  << IF "used_column" \in DOMAIN r THEN r.used_column ELSE None,
     IF "age_analysis" \in DOMAIN r THEN r.age_analysis.used_column
     ELSE None >>

\* the first alias of the list that some column equals case-insensitively
FirstAlias(aliases, columns) ==
  LET hits == {k \in 1..Len(aliases) :
                 \E j \in 1..Len(columns) : Lower(columns[j]) = aliases[k]}
  IN IF hits = {} THEN None
     ELSE aliases[CHOOSE k \in hits : \A h \in hits : k <= h]

\* C6: the column used is one matching the earliest alias that equals some
\* column name case-insensitively, in its original casing, whatever the
\* order of the columns; it is unresolved exactly when no alias matches.
C6_ResolutionIndependentOfColumnOrder ==
  (Uploaded /\ df.ok) =>
    /\ Lower(UsedColumns(result)[1])
         = FirstAlias(possible_gender_columns, df.columns)
    /\ UsedColumns(result)[1] # None =>
         /\ UsedColumns(result)[1] \in Range(df.columns)
         /\ UsedColumns(result)[2] # None =>
              /\ UsedColumns(result)[2] \in Range(df.columns)
              /\ Lower(UsedColumns(result)[2])
                   = FirstAlias(possible_age_columns, df.columns)
    /\ \A p \in Permutations(1..Len(df.columns)) :
         UsedColumns(upload_file(PermuteColumns(df, p))) = UsedColumns(result)

MaleTexts == { male, <<"1">>, <<"m">>, <<"m","a","l","e",".">>, <<"m",".">> }

FemaleTexts == { female, <<"0">>, <<"f">>, <<"f","e","m","a","l","e",".">>, <<"f",".">> }

\* C7: male and female count the cells whose lower-cased, stripped text is
\* one of the listed encodings, total is their sum, and any other cell is in
\* neither count while its text appears in normalized_values; Example 1
\* gives male = 4, female = 3, total = 7.
C7_CountsFollowTheEncodings ==
  HasReport =>
    LET cells == Column(df, result.used_column)
        key(i) == Strip(Lower(cells[i]))
    IN /\ result.male = Cardinality({i \in 1..Len(cells) : key(i) \in MaleTexts})
       /\ result.female
            = Cardinality({i \in 1..Len(cells) : key(i) \in FemaleTexts})
       /\ result.total = result.male + result.female
       /\ \A i \in 1..Len(cells) :
            key(i) \notin MaleTexts \cup FemaleTexts
              => key(i) \in Range(result.normalized_values)
       /\ df = Example1 =>
            result.male = 4 /\ result.female = 3 /\ result.total = 7

C7_Witness ==
  /\ Uploaded
  /\ df = Example1
  /\ result.male = 4
  /\ result.female = 3
  /\ result.total = 7
  /\ <<"u","n","k","n","o","w","n">> \in Range(result.normalized_values)

\* the number of numeric cells of the used age column lying in [lo, hi)
InBand(lo, hi) ==
  LET cells == Column(df, result.age_analysis.used_column)
  IN Cardinality({i \in 1..Len(cells) :
                    /\ to_numeric(cells[i]).k = "num"
                    /\ lo <= to_numeric(cells[i]).v
                    /\ to_numeric(cells[i]).v < hi})

\* C8: a returned age_analysis has all five labels, each with the number of
\* valid ages in its half-open interval (a boundary age belongs to the band
\* starting there), an empty band having count 0 and percent 0.0; ages
\* 10, 18, 34, 65, 90 give 1, 2, 0, 0, 2.
C8_BandCountsAreHalfOpen ==
  HasAge =>
    LET groups == result.age_analysis.age_groups
    IN /\ DOMAIN groups = {"Under 18", "18-34", "35-49", "50-64", "65+"}
       /\ groups["Under 18"].count = InBand(0, 18)
       /\ groups["18-34"].count = InBand(18, 35)
       /\ groups["35-49"].count = InBand(35, 50)
       /\ groups["50-64"].count = InBand(50, 65)
       /\ groups["65+"].count = InBand(65, 120)
       /\ \A l \in DOMAIN groups :
            groups[l].count = 0 => groups[l].percent = 0
       /\ df.rows = Example3Rows =>
            /\ groups["Under 18"].count = 1
            /\ groups["18-34"].count = 2
            /\ groups["35-49"].count = 0
            /\ groups["50-64"].count = 0
            /\ groups["65+"].count = 2

C8_Witness ==
  /\ HasAge
  /\ df.rows = Example3Rows
  /\ result.age_analysis.total_valid = 5
  /\ result.age_analysis.age_groups["18-34"].count = 2
  /\ result.age_analysis.age_groups["65+"].count = 2
  /\ result.age_analysis.age_groups["35-49"] = [count |-> 0, percent |-> 0]

\* C9: with exactly one valid age the std_dev of the age_analysis is 0 or
\* None, never NaN.
C9_StdDevDefinedForOneAge ==
  (HasAge /\ result.age_analysis.total_valid < 2)
    => ~result.age_analysis.std_dev.nan

\* C10: normalization is idempotent: every normalized value is left
\* unchanged by normalizing it again, and re-normalizing the normalized
\* column gives the same value set and the same male and female counts.
C10_NormalizationIdempotent ==
  HasReport =>
    LET once == normalized_gender(Column(df, result.used_column))
        twice == normalized_gender(once)
    IN /\ \A k \in 1..Len(result.normalized_values) :
            normalize(result.normalized_values[k]) = result.normalized_values[k]
       /\ Unique(twice) = result.normalized_values
       /\ CountEq(twice, male) = result.male
       /\ CountEq(twice, female) = result.female

C10_Witness ==
  /\ HasReport
  /\ \E k \in 1..Len(result.raw_values) :
       /\ Strip(result.raw_values[k]) # result.raw_values[k]
       /\ normalize(result.raw_values[k]) = female
  /\ \E k \in 1..Len(result.normalized_values) :
       result.normalized_values[k] \notin {male, female}

====
